---- MODULE Spec2Model ----
(***************************************************************************)
(* Receipt-processing Lambda (lambda.py): one S3 upload event is checked   *)
(* with s3.head_object, analysed with textract.analyze_expense, mapped to  *)
(* a receipt record, written with table.put_item and announced with        *)
(* ses.send_email.  External services are modelled by the calls issued to  *)
(* them (with their arguments) and a nondeterministic outcome per call.    *)
(***************************************************************************)
EXTENDS Integers, Sequences, FiniteSets, TLC

\* ------------------------------------------------------------------ bounds
MaxSummaryFields == 2
MaxLineItems == 3
MaxGroups == 2

\* --------------------------------------------------------------- constants
\* A dict key that is not present (dict.get falls back to its default).
NoKey == "<no-key>"

SES_SENDER_EMAIL == "sender_email"
SES_RECIPIENT_EMAIL == "receiver_email"

\* ------------------------------------------------------- bounded sequences
RECURSIVE SeqsUpTo(_, _)
SeqsUpTo(S, n) ==
  IF n = 0 THEN {<<>>}
  ELSE LET shorter == SeqsUpTo(S, n - 1)
       IN shorter \cup {Append(s, x) : s \in {t \in shorter : Len(t) = n - 1}, x \in S}

\* ------------------------------------------------------------ environment
\* datetime.now(): the day the clock shows when it is read (it never runs backwards).
Days == {1, 2}
\* datetime.now().strftime('%Y-%m-%d')
StrfDate(d) == IF d = 1 THEN "2024-03-01" ELSE "2024-03-02"
\* datetime.now().isoformat()
IsoFormat(d) == IF d = 1 THEN "2024-03-01T23:59:58.120000" ELSE "2024-03-02T00:00:01.450000"

\* str(uuid.uuid4()): a random draw
UUIDs == {"0b2e-uuid", "9c4f-uuid"}

\* urllib.parse.unquote_plus on the keys the events carry
unquote_plus(k) ==
  CASE k = "my%20receipt.jpg" -> "my receipt.jpg"
    [] k = "my+receipt.jpg" -> "my receipt.jpg"
    [] OTHER -> k

\* S3 event payloads: well formed, or lacking a part the handler indexes.
S3Record(b, k) == [bucket |-> b, key |-> k]
Events ==
  {[hasRecords |-> TRUE, Records |-> <<S3Record("receipts", "my%20receipt.jpg")>>],
   [hasRecords |-> FALSE, Records |-> <<>>],
   [hasRecords |-> TRUE, Records |-> <<>>],
   [hasRecords |-> TRUE, Records |-> <<S3Record(NoKey, "r.jpg")>>],
   [hasRecords |-> TRUE, Records |-> <<S3Record("receipts", NoKey)>>]}

\* event['Records'][0]['s3']['bucket']['name'] and ...['object']['key'] can be read
EventReadable(event) ==
  /\ event.hasRecords
  /\ Len(event.Records) > 0
  /\ event.Records[1].bucket # NoKey
  /\ event.Records[1].key # NoKey

\* ----------------------------------------------------- analyzer responses
\* A field: {'Type': {'Text': ..}, 'ValueDetection': {'Text': ..}}, either part optional.
Field(t, v) == [Type |-> t, Text |-> v]

SummaryFieldChoices ==
  {Field(t, v) : t \in {"TOTAL", "INVOICE_RECEIPT_DATE", "VENDOR_NAME", "TAX"},
                 v \in {"12.50", "Cafe X"}}
  \cup {Field(NoKey, "12.50"), Field("TOTAL", NoKey), Field("VENDOR_NAME", NoKey)}

\* A line item: {'LineItemExpenseFields': [...]}, the key optional.
LineItem(has, fields) == [hasFields |-> has, LineItemExpenseFields |-> fields]
LineItemChoices ==
  {LineItem(TRUE, <<Field("ITEM", "Coffee"), Field("PRICE", "4.00"), Field("QUANTITY", "2")>>),
   LineItem(TRUE, <<Field("ITEM", "Tea")>>),
   LineItem(TRUE, <<Field("PRICE", "1.00"), Field("QUANTITY", "3")>>),
   LineItem(TRUE, <<Field("ITEM", "Scone"), Field("SKU", "X1"), Field("ITEM", NoKey)>>),
   LineItem(FALSE, <<>>)}

\* A line-item group: {'LineItems': [...]}, the key optional.
Group(has, items) == [hasLineItems |-> has, LineItems |-> items]

\* The ways to cut a sequence of n line items into m consecutive groups.
Cuts(n, m) == {c \in [1..(m - 1) -> 0..n] : \A i \in 1..(m - 2) : c[i] <= c[i + 1]}

\* The groups cut from line_items at c; an empty group has an empty list, or no list at all.
Split(line_items, m, c, emptyHasKey) ==
  [i \in 1..m |->
     LET lo == IF i = 1 THEN 0 ELSE c[i - 1]
         hi == IF i = m THEN Len(line_items) ELSE c[i]
     IN IF hi = lo THEN Group(emptyHasKey, <<>>)
        ELSE Group(TRUE, SubSeq(line_items, lo + 1, hi))]

\* LineItemGroups values: at most MaxGroups groups holding at most MaxLineItems line items in all.
GroupSeqChoices ==
  {<<>>} \cup
  UNION {UNION {{Split(f, m, c, e) : c \in Cuts(Len(f), m), e \in BOOLEAN} : m \in 1..MaxGroups}
         : f \in SeqsUpTo(LineItemChoices, MaxLineItems)}

\* An expense document: {'SummaryFields': [...], 'LineItemGroups': [...]}, both optional.
Doc(hasS, s, hasG, g) ==
  [hasSummaryFields |-> hasS, SummaryFields |-> s, hasLineItemGroups |-> hasG, LineItemGroups |-> g]

ScenarioSummary ==
  <<Field("TOTAL", "12.50"), Field("VENDOR_NAME", "Cafe X"), Field("INVOICE_RECEIPT_DATE", "2024-03-01")>>
ScenarioGroups ==
  <<Group(TRUE, <<LineItem(TRUE, <<Field("ITEM", "Coffee"), Field("PRICE", "4.00"), Field("QUANTITY", "2")>>)>>)>>

\* First documents: every summary part with the scenario's line items, and
\* every line-item part with the scenario's summary (the two loops of the
\* mapper write disjoint fields of the record).
FirstDocs ==
  {Doc(FALSE, <<>>, TRUE, ScenarioGroups)}
  \cup {Doc(TRUE, s, TRUE, ScenarioGroups) : s \in SeqsUpTo(SummaryFieldChoices, MaxSummaryFields)}
  \cup {Doc(TRUE, ScenarioSummary, FALSE, <<>>)}
  \cup {Doc(TRUE, ScenarioSummary, TRUE, g) : g \in GroupSeqChoices}

\* Documents after the first, carrying fields that would show in the record if read.
LaterDoc ==
  Doc(TRUE, <<Field("TOTAL", "99.99"), Field("VENDOR_NAME", "Other Shop"), Field("INVOICE_RECEIPT_DATE", "1999-01-01")>>,
      TRUE, <<Group(TRUE, <<LineItem(TRUE, <<Field("ITEM", "Ghost"), Field("PRICE", "9.99")>>)>>)>>)

\* What follows the first document: nothing, or one more document.
LaterDocChoices == {<<>>, <<LaterDoc>>}

Response(has, docs) == [hasExpenseDocuments |-> has, ExpenseDocuments |-> docs]
Responses ==
  {Response(FALSE, <<>>), Response(TRUE, <<>>)}
  \cup {Response(TRUE, <<d>> \o later) : d \in FirstDocs, later \in LaterDocChoices}

NoResponse == Response(FALSE, <<>>)

\* --------------------------------------------------------- field mapping
\* field.get('Type', {}).get('Text', '')
FieldType(field) == IF field.Type = NoKey THEN "" ELSE field.Type
\* field.get('ValueDetection', {}).get('Text', '')
FieldValue(field) == IF field.Text = NoKey THEN "" ELSE field.Text

\* a variant whose default vendor is the empty string
DefaultReceiptData_blankVendor(receipt_id, now, bucket, key) ==
  [receipt_id |-> receipt_id,
   date |-> StrfDate(now),
   vendor |-> "",
   total |-> "0.00",
   items |-> <<>>,
   s3_path |-> <<"s3://", bucket, "/", key>>]

\* receipt_data as initialised with its defaults
DefaultReceiptData(receipt_id, now, bucket, key) ==
  [receipt_id |-> receipt_id,
   date |-> StrfDate(now),
   vendor |-> "Unknown",
   total |-> "0.00",
   items |-> <<>>,
   s3_path |-> <<"s3://", bucket, "/", key>>]

\* 'ExpenseDocuments' in response and response['ExpenseDocuments']
HasExpenseDocuments(response) ==
  response.hasExpenseDocuments /\ Len(response.ExpenseDocuments) > 0

\* a variant that reads the last expense document
ExpenseDoc_last(response) == response.ExpenseDocuments[Len(response.ExpenseDocuments)]

\* expense_doc = response['ExpenseDocuments'][0]
ExpenseDoc(response) == response.ExpenseDocuments[1]

\* one pass of the summary loop body
ApplySummaryField(rd, field) ==
  LET field_type == FieldType(field)
      value == FieldValue(field)
  IN CASE field_type = "TOTAL" -> [rd EXCEPT !.total = value]
       [] field_type = "INVOICE_RECEIPT_DATE" -> [rd EXCEPT !.date = value]
       [] field_type = "VENDOR_NAME" -> [rd EXCEPT !.vendor = value]
       [] OTHER -> rd

RECURSIVE ApplySummaryFields(_, _)
ApplySummaryFields(rd, fields) ==
  IF fields = <<>> THEN rd
  ELSE ApplySummaryFields(ApplySummaryField(rd, Head(fields)), Tail(fields))

\* item = {}
EmptyItem == [name |-> NoKey, price |-> NoKey, quantity |-> NoKey]

\* one pass of the line-item field loop body
ApplyItemField(item, field) ==
  LET field_type == FieldType(field)
      value == FieldValue(field)
  IN CASE field_type = "ITEM" -> [item EXCEPT !.name = value]
       [] field_type = "PRICE" -> [item EXCEPT !.price = value]
       [] field_type = "QUANTITY" -> [item EXCEPT !.quantity = value]
       [] OTHER -> item

RECURSIVE ApplyItemFields(_, _)
ApplyItemFields(item, fields) ==
  IF fields = <<>> THEN item
  ELSE ApplyItemFields(ApplyItemField(item, Head(fields)), Tail(fields))

\* a variant that keeps every line item, named or not
KeepItem_always(item) == TRUE

\* 'name' in item
KeepItem(item) == item.name # NoKey

\* the loop over group['LineItems'], appending to the items collected so far
RECURSIVE AppendLineItems(_, _)
AppendLineItems(items, line_items) ==
  IF line_items = <<>> THEN items
  ELSE LET item == ApplyItemFields(EmptyItem, Head(line_items).LineItemExpenseFields)
       IN AppendLineItems(IF KeepItem(item) THEN Append(items, item) ELSE items,
                          Tail(line_items))

\* the loop over expense_doc['LineItemGroups']
RECURSIVE AppendGroups(_, _)
AppendGroups(items, groups) ==
  IF groups = <<>> THEN items
  ELSE AppendGroups(IF Head(groups).hasLineItems
                    THEN AppendLineItems(items, Head(groups).LineItems)
                    ELSE items,
                    Tail(groups))

\* the mapping part of process_receipt_with_textract
MapResponse(response, receipt_id, now, bucket, key) ==
  LET rd0 == DefaultReceiptData(receipt_id, now, bucket, key)
  IN IF HasExpenseDocuments(response)
     THEN LET expense_doc == ExpenseDoc(response)
              rd1 == IF expense_doc.hasSummaryFields
                     THEN ApplySummaryFields(rd0, expense_doc.SummaryFields)
                     ELSE rd0
          IN IF expense_doc.hasLineItemGroups
             THEN [rd1 EXCEPT !.items = AppendGroups(rd1.items, expense_doc.LineItemGroups)]
             ELSE rd1
     ELSE rd0

\* ------------------------------------------------------------ store item
\* dict.get(key, default)
DictGet(v, default) == IF v = NoKey THEN default ELSE v

\* the dict appended to items_for_db for one item
ItemForDb(item) ==
  [name |-> DictGet(item.name, "Unknown Item"),
   price |-> DictGet(item.price, "0.00"),
   quantity |-> DictGet(item.quantity, "1")]

\* db_item as built by store_receipt_in_dynamodb
DbItem(rd, ts) ==
  [receipt_id |-> rd.receipt_id,
   date |-> rd.date,
   vendor |-> rd.vendor,
   total |-> rd.total,
   items |-> [i \in 1..Len(rd.items) |-> ItemForDb(rd.items[i])],
   s3_path |-> rd.s3_path,
   processed_timestamp |-> IsoFormat(ts)]

\* ------------------------------------------------------------------ email
\* f"<li>{name} - ${price} x {quantity}</li>", kept as its pieces
ItemHtml(item) ==
  <<"<li>", DictGet(item.name, "Unknown Item"), " - $", DictGet(item.price, "N/A"),
    " x ", DictGet(item.quantity, "1"), "</li>">>

\* items_html: one <li> per item, or the placeholder when the string is empty
ItemsHtml(items) ==
  IF items = <<>> THEN <<(<<"<li>No items detected</li>">>)>>
  ELSE [i \in 1..Len(items) |-> ItemHtml(items[i])]

\* the interpolated values of html_body, in template order
HtmlBody(rd) ==
  [receipt_id |-> rd.receipt_id,
   vendor |-> rd.vendor,
   date |-> rd.date,
   total |-> rd.total,
   s3_path |-> rd.s3_path,
   items_html |-> ItemsHtml(rd.items)]

\* the arguments of ses.send_email
EmailMessage(rd) ==
  [Source |-> SES_SENDER_EMAIL,
   ToAddresses |-> <<SES_RECIPIENT_EMAIL>>,
   Subject |-> <<"Receipt Processed: ", rd.vendor, " - $", rd.total>>,
   Html |-> HtmlBody(rd)]

\* ------------------------------------------------------------------ state
VARIABLES pc, bucket, key, response, processing_day, receipt_data, calls, result

vars == <<pc, bucket, key, response, processing_day, receipt_data, calls, result>>

\* receipt_data before process_receipt_with_textract returned
NoData ==
  [receipt_id |-> NoKey, date |-> NoKey, vendor |-> NoKey, total |-> NoKey,
   items |-> <<>>, s3_path |-> <<>>]

NoResult == [statusCode |-> 0, body |-> <<>>]

\* one call to an external service: which operation, its arguments, whether it returned
Call(op, arg, ok) == [op |-> op, arg |-> arg, ok |-> ok]

\* return {'statusCode': 200, ...}
Success == [statusCode |-> 200, body |-> <<"Receipt processed successfully!">>]

\* a variant whose except branch reports success
Failure_as200(msg) == [statusCode |-> 200, body |-> <<"Error: ">> \o msg]

\* the handler's except branch: return {'statusCode': 500, 'body': f'Error: {str(e)}'}
Failure(msg) == [statusCode |-> 500, body |-> <<"Error: ">> \o msg]

Init ==
  /\ pc = "idle"
  /\ bucket = NoKey
  /\ key = NoKey
  /\ response = NoResponse
  /\ processing_day = 0
  /\ receipt_data = NoData
  /\ calls = <<>>
  /\ result = NoResult

\* lambda_handler is entered with an event; bucket and key are read from it
Invoke ==
  /\ pc \in {"idle", "done"}
  /\ \E event \in Events :
       /\ response' = NoResponse
       /\ processing_day' = 0
       /\ receipt_data' = NoData
       /\ calls' = <<>>
       /\ IF EventReadable(event)
          THEN /\ bucket' = event.Records[1].bucket
               /\ key' = unquote_plus(event.Records[1].key)
               /\ result' = NoResult
               /\ pc' = "head_object"
          ELSE /\ bucket' = NoKey
               /\ key' = NoKey
               /\ result' = Failure(<<"KeyError/IndexError">>)
               /\ pc' = "done"

\* a variant that goes on to the pipeline whatever head_object answered
HeadObject_unchecked ==
  /\ pc = "head_object"
  /\ \E ok \in BOOLEAN :
       /\ calls' = Append(calls, Call("head_object", [Bucket |-> bucket, Key |-> key], ok))
       /\ pc' = "process"
       /\ UNCHANGED <<bucket, key, response, processing_day, receipt_data, result>>

\* s3.head_object(Bucket=bucket, Key=key) and its except branch
HeadObject ==
  /\ pc = "head_object"
  /\ \E ok \in BOOLEAN :
       /\ calls' = Append(calls, Call("head_object", [Bucket |-> bucket, Key |-> key], ok))
       /\ IF ok
          THEN /\ pc' = "process"
               /\ result' = result
          ELSE /\ pc' = "done"
               /\ result' = Failure(<<"Unable to access object ", key, " in bucket ", bucket>>)
       /\ UNCHANGED <<bucket, key, response, processing_day, receipt_data>>

\* process_receipt_with_textract: the analyze_expense call, then the mapping
ProcessReceipt ==
  /\ pc = "process"
  /\ LET arg == [Bucket |-> bucket, Name |-> key]
     IN \/ /\ calls' = Append(calls, Call("analyze_expense", arg, FALSE))
           /\ pc' = "done"
           /\ result' = Failure(<<"analyze_expense failed">>)
           /\ UNCHANGED <<response, processing_day, receipt_data>>
        \/ \E resp \in Responses, receipt_id \in UUIDs, now \in Days :
             /\ calls' = Append(calls, Call("analyze_expense", arg, TRUE))
             /\ response' = resp
             /\ processing_day' = now
             /\ receipt_data' = MapResponse(resp, receipt_id, now, bucket, key)
             /\ pc' = "store"
             /\ result' = result
  /\ UNCHANGED <<bucket, key>>

\* a variant that writes a second time when the first put_item failed
StoreReceipt_retry ==
  /\ pc = "store"
  /\ \E ok \in BOOLEAN, ok2 \in BOOLEAN, ts \in {d \in Days : d >= processing_day} :
       LET first == Append(calls, Call("put_item", DbItem(receipt_data, ts), ok))
           after == IF ok THEN first ELSE Append(first, Call("put_item", DbItem(receipt_data, ts), ok2))
       IN /\ calls' = after
          /\ IF ok \/ ok2
             THEN /\ pc' = "notify"
                  /\ result' = result
             ELSE /\ pc' = "done"
                  /\ result' = Failure(<<"put_item failed">>)
  /\ UNCHANGED <<bucket, key, response, processing_day, receipt_data>>

\* a variant that logs the put_item failure without re-raising it
StoreReceipt_swallows ==
  /\ pc = "store"
  /\ \E ok \in BOOLEAN, ts \in {d \in Days : d >= processing_day} :
       calls' = Append(calls, Call("put_item", DbItem(receipt_data, ts), ok))
  /\ pc' = "notify"
  /\ result' = result
  /\ UNCHANGED <<bucket, key, response, processing_day, receipt_data>>

\* store_receipt_in_dynamodb: build db_item, one table.put_item, re-raise on failure
StoreReceipt ==
  /\ pc = "store"
  /\ \E ok \in BOOLEAN, ts \in {d \in Days : d >= processing_day} :
       /\ calls' = Append(calls, Call("put_item", DbItem(receipt_data, ts), ok))
       /\ IF ok
          THEN /\ pc' = "notify"
               /\ result' = result
          ELSE /\ pc' = "done"
               /\ result' = Failure(<<"put_item failed">>)
  /\ UNCHANGED <<bucket, key, response, processing_day, receipt_data>>

\* a variant whose notifier lets the mail failure reach the handler
SendEmail_propagates ==
  /\ pc = "notify"
  /\ \E ok \in BOOLEAN :
       /\ calls' = Append(calls, Call("send_email", EmailMessage(receipt_data), ok))
       /\ result' = IF ok THEN Success ELSE Failure(<<"send_email failed">>)
  /\ pc' = "done"
  /\ UNCHANGED <<bucket, key, response, processing_day, receipt_data>>

\* send_email_notification (failure caught inside), then the handler's return
SendEmail ==
  /\ pc = "notify"
  /\ \E ok \in BOOLEAN :
       calls' = Append(calls, Call("send_email", EmailMessage(receipt_data), ok))
  /\ pc' = "done"
  /\ result' = Success
  /\ UNCHANGED <<bucket, key, response, processing_day, receipt_data>>

Next ==
  \/ Invoke
  \/ HeadObject
  \/ ProcessReceipt
  \/ StoreReceipt
  \/ SendEmail

Spec == Init /\ [][Next]_vars

\* ============================================================ properties
\* the external calls of the current invocation, by position in the log
Ops == [i \in 1..Len(calls) |-> calls[i].op]
FailedCall(op) == \E i \in 1..Len(calls) : calls[i].op = op /\ ~calls[i].ok
ReturnedCall(op) == \E i \in 1..Len(calls) : calls[i].op = op /\ calls[i].ok
Issued(op) == \E i \in 1..Len(calls) : calls[i].op = op
Returned == pc = "done"

\* C1: when s3.head_object fails, neither analyze_expense nor put_item nor
\* send_email is called in that invocation and the handler returns statusCode 500.
C1_NoCallsAfterFailedCheck ==
  FailedCall("head_object") =>
    /\ ~Issued("analyze_expense")
    /\ ~Issued("put_item")
    /\ ~Issued("send_email")
    /\ Returned
    /\ result.statusCode = 500

C1_Witness == Returned /\ FailedCall("head_object") /\ key = "my receipt.jpg"

\* C2: once the object check, the analysis call and the store write have all
\* returned, the handler's result is statusCode 200, also when send_email failed.
C2_NotifierFailureSwallowed ==
  (Returned /\ ReturnedCall("head_object") /\ ReturnedCall("analyze_expense") /\ ReturnedCall("put_item"))
    => /\ result = Success
       /\ Issued("send_email")

C2_Witness == Returned /\ ReturnedCall("put_item") /\ FailedCall("send_email") /\ result.statusCode = 200

\* C3 as stated: the handler returns failure exactly when the object check,
\* the analysis call or the store write failed, and success otherwise.
C3_FailureOnlyFromThreeErrors ==
  Returned =>
    /\ result.statusCode \in {200, 500}
    /\ result.statusCode = 500 <=>
         (FailedCall("head_object") \/ FailedCall("analyze_expense") \/ FailedCall("put_item"))

\* the event could not be read: the handler failed before its first external call
EventError == Returned /\ bucket = NoKey /\ calls = <<>>

\* C3 amended: the handler returns failure exactly when the event payload could
\* not be read, or the object check, the analysis call or the store write failed;
\* in every other run it returns success.
C3_FailureCauses ==
  Returned =>
    /\ result.statusCode \in {200, 500}
    /\ result.statusCode = 500 <=>
         (EventError \/ FailedCall("head_object") \/ FailedCall("analyze_expense") \/ FailedCall("put_item"))

C3_Witness == EventError /\ result.statusCode = 500

\* C4: the calls of one invocation are a prefix of head_object, analyze_expense,
\* put_item, send_email, each issued at most once and each issued only after
\* the one before it returned successfully.
CallOrder == <<"head_object", "analyze_expense", "put_item", "send_email">>
C4_FixedOrderNoRetry ==
  /\ Len(calls) <= Len(CallOrder)
  /\ \A i \in 1..Len(calls) :
       /\ calls[i].op = CallOrder[i]
       /\ i < Len(calls) => calls[i].ok

C4_Witness == Ops = CallOrder /\ Returned

\* C5: a failed analyze_expense is followed by no put_item and no send_email and
\* the result is failure; a failed put_item is followed by no send_email and
\* the result is failure.
C5_AbortOnAnalysisOrStoreFailure ==
  /\ FailedCall("analyze_expense") =>
       /\ ~Issued("put_item")
       /\ ~Issued("send_email")
       /\ Returned
       /\ result.statusCode = 500
  /\ FailedCall("put_item") =>
       /\ ~Issued("send_email")
       /\ Returned
       /\ result.statusCode = 500

C5_Witness == Returned /\ ReturnedCall("analyze_expense") /\ FailedCall("put_item") /\ receipt_data.items # <<>>

\* the analyzer answered and the answer was mapped
Mapped == ReturnedCall("analyze_expense")
\* the response carries no expense document: key absent, or an empty list
ZeroDocuments == ~response.hasExpenseDocuments \/ response.ExpenseDocuments = <<>>
PutArg == calls[3].arg
MailArg == calls[4].arg

\* C7: for a response without expense documents the record has vendor "Unknown",
\* total "0.00", the processing date and no items; no error is raised; put_item
\* is issued with that record and, when it returns, send_email is issued for it.
C7_ZeroDocumentsGiveDefaults ==
  (Mapped /\ ZeroDocuments) =>
    /\ receipt_data.vendor = "Unknown"
    /\ receipt_data.total = "0.00"
    /\ receipt_data.date = StrfDate(processing_day)
    /\ receipt_data.items = <<>>
    /\ pc \in {"store", "notify", "done"}
    /\ pc \in {"notify", "done"} =>
         /\ Len(calls) >= 3
         /\ PutArg.vendor = "Unknown" /\ PutArg.total = "0.00"
         /\ PutArg.date = StrfDate(processing_day) /\ PutArg.items = <<>>
         /\ PutArg.receipt_id = receipt_data.receipt_id
    /\ (Returned /\ ReturnedCall("put_item")) =>
         /\ Len(calls) = 4
         /\ MailArg.Html.vendor = "Unknown" /\ MailArg.Html.total = "0.00"
         /\ MailArg.Html.date = StrfDate(processing_day)
         /\ MailArg.Html.items_html = <<(<<"<li>No items detected</li>">>)>>
         /\ result.statusCode = 200
    /\ Returned => (result.statusCode = 500 <=> FailedCall("put_item"))

C7_Witness ==
  /\ Mapped /\ response.hasExpenseDocuments /\ response.ExpenseDocuments = <<>>
  /\ Returned /\ Len(calls) = 4 /\ processing_day = 2

\* the line items of the first expense document, in extraction order
RECURSIVE Flatten(_)
Flatten(groups) ==
  IF groups = <<>> THEN <<>>
  ELSE (IF Head(groups).hasLineItems THEN Head(groups).LineItems ELSE <<>>) \o Flatten(Tail(groups))

InputLineItems ==
  IF ZeroDocuments \/ ~response.ExpenseDocuments[1].hasLineItemGroups THEN <<>>
  ELSE Flatten(response.ExpenseDocuments[1].LineItemGroups)

ItemTagged(line_item) ==
  \E i \in 1..Len(line_item.LineItemExpenseFields) : line_item.LineItemExpenseFields[i].Type = "ITEM"
Max(S) == CHOOSE m \in S : \A n \in S : n <= m
\* the detected text of the last field of a sequence that carries a tag
LastText(fields, tag) ==
  LET at == Max({i \in 1..Len(fields) : fields[i].Type = tag})
  IN IF fields[at].Text = NoKey THEN "" ELSE fields[at].Text
Tagged(fields, tag) == \E i \in 1..Len(fields) : fields[i].Type = tag

\* C8: the record's items are exactly the line items of the first document that
\* carry an ITEM-tagged field, in extraction order: never more items than line
\* items, and strictly fewer when some line item has no ITEM field.
C8_ItemsAreNamedLineItems ==
  Mapped =>
    LET kept == SelectSeq(InputLineItems, ItemTagged)
        items == receipt_data.items
    IN /\ Len(items) = Len(kept)
       /\ \A i \in 1..Len(items) : items[i].name = LastText(kept[i].LineItemExpenseFields, "ITEM")
       /\ Len(items) <= Len(InputLineItems)
       /\ (\E i \in 1..Len(InputLineItems) : ~ItemTagged(InputLineItems[i]))
            => Len(items) < Len(InputLineItems)

C8_Witness ==
  /\ Mapped /\ Len(InputLineItems) = 3 /\ ~ItemTagged(InputLineItems[2])
  /\ Len(receipt_data.items) = 2
  /\ receipt_data.items[1].name = "Tea" /\ receipt_data.items[2].name = "Coffee"

\* C9: every kept item is stored and rendered with the same name, price and
\* quantity, the price being "0.00" and the quantity "1" when the analyzer gave none.
C9_StoredAndRenderedItemsAgree ==
  (Returned /\ Len(calls) = 4) =>
    \A i \in 1..Len(receipt_data.items) :
      LET item == receipt_data.items[i]
          stored == PutArg.items[i]
          rendered == MailArg.Html.items_html[i]
      IN /\ stored.name = item.name /\ rendered[2] = stored.name
         /\ stored.price = (IF item.price = NoKey THEN "0.00" ELSE item.price)
         /\ rendered[4] = stored.price
         /\ stored.quantity = (IF item.quantity = NoKey THEN "1" ELSE item.quantity)
         /\ rendered[6] = stored.quantity

\* the summary fields of the first expense document
InputSummaryFields ==
  IF ZeroDocuments \/ ~response.ExpenseDocuments[1].hasSummaryFields THEN <<>>
  ELSE response.ExpenseDocuments[1].SummaryFields
ExpectedSummary(tag, default) ==
  IF Tagged(InputSummaryFields, tag) THEN LastText(InputSummaryFields, tag) ELSE default

====
